---- MODULE Spec2Model ----
(***************************************************************************)
(* A model of tpik (src/tpik/app.py): the TmuxManager operations, the      *)
(* favorites store, the session listing parser and the TpikApp handlers.   *)
(*                                                                         *)
(* Python strings are sequences of one-character strings, so that strip,   *)
(* split, lower, the substring test and sorted() are computed as the code  *)
(* computes them.  The tmux server, the environment and the favorites file *)
(* are the program's surroundings and are part of the state.               *)
(***************************************************************************)
EXTENDS Integers, Sequences, FiniteSets, TLC

(***************************************************************************)
(* Bounds of the model.                                                    *)
(***************************************************************************)
\* how many sessions action_new_session may add to the tmux server
MaxCreate == 1
\* how many lines a listing output handed to get_sessions may have
MaxLines == 3
\* how many sessions the listing behind the filter engine may have
MaxListed == 2
\* how many sessions the tmux server may hold when TmuxManager is called directly
MaxServer == 2

None == "None"

(***************************************************************************)
(* Python str operations.                                                  *)
(***************************************************************************)
\* the characters of the model, in code point order
Alphabet ==
  << "\n", " ", "-", "0", "1", "2", "3", "4", "5", "6", "7", "8", "9",
     "K", "O", "R", "W",
     "a", "b", "c", "d", "e", "f", "g", "h", "i", "j", "k", "l", "m", "n",
     "o", "p", "q", "r", "s", "t", "u", "v", "w", "x", "y", "z", "|" >>

Ord(c) == CHOOSE i \in 1..Len(Alphabet) : Alphabet[i] = c

Whitespace == {" ", "\n"}

Digits == {"0", "1", "2", "3", "4", "5", "6", "7", "8", "9"}

\* str.lower() on one character
LowerChar(c) ==
  CASE c = "W" -> "w"
    [] c = "O" -> "o"
    [] c = "R" -> "r"
    [] c = "K" -> "k"
    [] OTHER   -> c

\* str.lower()
Lower(s) == [i \in 1..Len(s) |-> LowerChar(s[i])]

\* `q in s` for strings: q occurs in s as a contiguous substring
Contains(q, s) ==
  \E i \in 0..(Len(s) - Len(q)) : SubSeq(s, i + 1, i + Len(q)) = q

RECURSIVE LStrip(_)
LStrip(s) ==
  IF s = <<>> THEN <<>>
  ELSE IF Head(s) \in Whitespace THEN LStrip(Tail(s)) ELSE s

RECURSIVE RStrip(_)
RStrip(s) ==
  IF s = <<>> THEN <<>>
  ELSE IF s[Len(s)] \in Whitespace THEN RStrip(SubSeq(s, 1, Len(s) - 1)) ELSE s

\* str.strip()
Strip(s) == RStrip(LStrip(s))

\* str.split(sep) for a one-character separator: always at least one part
RECURSIVE SplitAcc(_, _, _)
SplitAcc(s, sep, cur) ==
  IF s = <<>> THEN <<cur>>
  ELSE IF Head(s) = sep THEN <<cur>> \o SplitAcc(Tail(s), sep, <<>>)
  ELSE SplitAcc(Tail(s), sep, Append(cur, Head(s)))

Split(s, sep) == SplitAcc(s, sep, <<>>)

\* sep.join(parts)
RECURSIVE Join(_, _)
Join(parts, sep) ==
  IF parts = <<>> THEN <<>>
  ELSE IF Len(parts) = 1 THEN parts[1]
  ELSE parts[1] \o <<sep>> \o Join(Tail(parts), sep)

\* a < b for strings: lexicographic by code point
RECURSIVE StrLess(_, _)
StrLess(a, b) ==
  IF b = <<>> THEN FALSE
  ELSE IF a = <<>> THEN TRUE
  ELSE IF Head(a) = Head(b) THEN StrLess(Tail(a), Tail(b))
  ELSE Ord(Head(a)) < Ord(Head(b))

\* sorted(set of strings)
RECURSIVE Sorted(_)
Sorted(S) ==
  IF S = {} THEN <<>>
  ELSE LET m == CHOOSE x \in S : \A y \in S \ {x} : StrLess(x, y)
       IN  <<m>> \o Sorted(S \ {m})

\* str.isdigit()
IsDigit(s) == s # <<>> /\ \A i \in 1..Len(s) : s[i] \in Digits

DigitChars == <<"0", "1", "2", "3", "4", "5", "6", "7", "8", "9">>

DigitVal(c) == (CHOOSE i \in 1..10 : DigitChars[i] = c) - 1

\* int(s) for a string of digits
RECURSIVE IntOf(_)
IntOf(s) ==
  IF s = <<>> THEN 0
  ELSE 10 * IntOf(SubSeq(s, 1, Len(s) - 1)) + DigitVal(s[Len(s)])

Range(f) == {f[i] : i \in DOMAIN f}


(***************************************************************************)
(* Favorites store: TmuxManager.load_favorites / save_favorites /          *)
(* toggle_favorite.  The file is its text; readOk / writeOk say whether    *)
(* the read or the write raised (both handlers swallow the exception).     *)
(***************************************************************************)
load_favorites(content, readOk) ==
  IF ~readOk THEN {}
  ELSE LET c == Strip(content) IN
       IF c = <<>> THEN {}
       ELSE {Strip(line) : line \in {l \in Range(Split(c, "\n")) : Strip(l) # <<>>}}

\* the text save_favorites hands to write_text
favorites_text(favorites) ==
  LET content == Join(Sorted(favorites), "\n")
  IN  IF content # <<>> THEN content \o <<"\n">> ELSE <<>>

\* the file after save_favorites
save_favorites(content, favorites, writeOk) ==
  IF writeOk THEN favorites_text(favorites) ELSE content

\* toggle_favorite: the boolean returned and the file left behind
toggle_favorite(content, session_name, readOk, writeOk) ==
  LET favorites == load_favorites(content, readOk)
      is_favorite == session_name \notin favorites
      flipped == IF session_name \in favorites
                 THEN favorites \ {session_name}
                 ELSE favorites \cup {session_name}
  IN  [ret |-> is_favorite, file |-> save_favorites(content, flipped, writeOk)]

(***************************************************************************)
(* Session listing: TmuxManager.get_sessions.                              *)
(***************************************************************************)
\* int(s) succeeds: optional surrounding whitespace, optional sign, digits
IntParsable(s) ==
  LET t == Strip(s) IN
  t # <<>> /\ (IsDigit(t) \/ (Head(t) = "-" /\ IsDigit(Tail(t))))

\* the digits of |int(s)| without leading zeros ("0" for zero)
RECURSIVE DropZeros(_)
DropZeros(d) ==
  IF Len(d) > 1 /\ Head(d) = "0" THEN DropZeros(Tail(d)) ELSE d

Magnitude(s) ==
  LET t == Strip(s) IN DropZeros(IF Head(t) = "-" THEN Tail(t) ELSE t)

Negative(s) == Head(Strip(s)) = "-" /\ Magnitude(s) # <<"0">>

\* a < b for two numbers written in digits without leading zeros
NumLess(a, b) == Len(a) < Len(b) \/ (Len(a) = Len(b) /\ StrLess(a, b))

\* 9999-12-31 23:59:59, the last second datetime can hold
MaxDatetimeEpoch == <<"2", "5", "3", "4", "0", "2", "3", "0", "0", "7", "9", "9">>

\* 0001-01-01 00:00:00 is this many seconds before the epoch
MinDatetimeEpoch == <<"6", "2", "1", "3", "5", "5", "9", "6", "8", "0", "0">>

\* the last second whose year localtime() can hold in an int (glibc); the
\* same magnitude is taken for the seconds before the epoch
MaxLocaltimeEpoch ==
  <<"6", "7", "7", "6", "7", "9", "7", "6", "2", "3", "3", "5", "3", "2", "7", "9", "9">>

\* datetime.fromtimestamp(int(created_timestamp)).strftime(...) under
\* except (ValueError, TypeError):
\*   "time"    the formatted local time of the epoch (kept as its digits)
\*   "Unknown" int() or the year range check raised ValueError
\*   "raise"   localtime() failed or the value does not fit time_t: OSError or
\*             OverflowError, which the except clause does not catch
Created(created_timestamp) ==
  IF ~IntParsable(created_timestamp)
  THEN [kind |-> "Unknown", epoch |-> <<>>]
  ELSE LET mag == Magnitude(created_timestamp)
           neg == Negative(created_timestamp)
       IN  IF NumLess(MaxLocaltimeEpoch, mag)
           THEN [kind |-> "raise", epoch |-> <<>>]
           ELSE IF (neg /\ NumLess(MinDatetimeEpoch, mag))
                     \/ (~neg /\ NumLess(MaxDatetimeEpoch, mag))
           THEN [kind |-> "Unknown", epoch |-> <<>>]
           ELSE [kind |-> "time",
                 epoch |-> IF neg THEN <<"-">> \o mag ELSE mag]

\* the TmuxSession built from one line of four or more fields
ParseLine(parts, favorites) ==
  [ name           |-> parts[1],
    created        |-> Created(parts[2]),
    windows        |-> IF IsDigit(parts[3]) THEN IntOf(parts[3]) ELSE 0,
    attached       |-> parts[4] = <<"1">>,
    window_preview |-> IF Len(parts) > 4 THEN parts[5] ELSE <<>>,
    is_favorite    |-> parts[1] \in favorites ]

\* ParseLines with each record put in front of the list instead of appended
RECURSIVE ParseLinesPrepend(_, _)
ParseLinesPrepend(lines, favorites) ==
  IF lines = <<>> THEN <<>>
  ELSE LET line == Head(lines)
           rest == ParseLinesPrepend(Tail(lines), favorites)
           parts == Split(line, "|")
       IN  IF Strip(line) = <<>> THEN rest
           ELSE IF Len(parts) >= 4 THEN rest \o <<ParseLine(parts, favorites)>>
           ELSE rest

\* ParseLines giving up at the first line of fewer than four fields
RECURSIVE ParseLinesStopAtShort(_, _)
ParseLinesStopAtShort(lines, favorites) ==
  IF lines = <<>> THEN <<>>
  ELSE LET line == Head(lines)
           rest == ParseLinesStopAtShort(Tail(lines), favorites)
           parts == Split(line, "|")
       IN  IF Strip(line) = <<>> THEN rest
           ELSE IF Len(parts) >= 4 THEN <<ParseLine(parts, favorites)>> \o rest
           ELSE <<>>

\* the loop over the lines of the output
RECURSIVE ParseLines(_, _)
ParseLines(lines, favorites) ==
  IF lines = <<>> THEN <<>>
  ELSE LET line == Head(lines)
           rest == ParseLines(Tail(lines), favorites)
           parts == Split(line, "|")
       IN  IF Strip(line) = <<>> THEN rest
           ELSE IF Len(parts) >= 4 THEN <<ParseLine(parts, favorites)>> \o rest
           ELSE rest

\* outcome of subprocess.run(["tmux", "list-sessions", ...], check=True):
\*   "ok" (exit 0), "nonzero" (CalledProcessError), "unavailable" (no tmux
\*   executable: FileNotFoundError, which get_sessions does not catch)
ListingOutcomes == {"ok", "nonzero", "unavailable"}

\* an exception raised while a line is converted leaves the method: no list
\* is returned
get_sessions(outcome, stdout, favContent, readOk) ==
  CASE outcome = "unavailable" -> [raised |-> TRUE, value |-> <<>>]
    [] outcome = "nonzero"     -> [raised |-> FALSE, value |-> <<>>]
    [] OTHER ->
         LET sessions_ == ParseLines(Split(Strip(stdout), "\n"),
                                     load_favorites(favContent, readOk))
         IN  IF \E i \in 1..Len(sessions_) : sessions_[i].created.kind = "raise"
             THEN [raised |-> TRUE, value |-> <<>>]
             ELSE [raised |-> FALSE, value |-> sessions_]

(***************************************************************************)
(* Filter engine: TpikApp.update_filtered_sessions.  filtered_sessions     *)
(* holds references to the objects of sessions; a reference is the index   *)
(* of the object in sessions.                                              *)
(***************************************************************************)
\* update_filtered_sessions comparing the query as typed, not lowercased
update_filtered_sessions_as_typed(sess, favOnly, query) ==
  LET all == [i \in 1..Len(sess) |-> i]
      IsFav(i) == sess[i].is_favorite
      byFav == IF favOnly THEN SelectSeq(all, IsFav) ELSE all
      Matches(i) == Contains(query, Lower(sess[i].name))
  IN  IF query # <<>> THEN SelectSeq(byFav, Matches) ELSE byFav

\* update_filtered_sessions applying the search only when the favorites
\* filter is off
update_filtered_sessions_either(sess, favOnly, query) ==
  LET all == [i \in 1..Len(sess) |-> i]
      IsFav(i) == sess[i].is_favorite
      q == Lower(query)
      Matches(i) == Contains(q, Lower(sess[i].name))
  IN  IF favOnly THEN SelectSeq(all, IsFav)
      ELSE IF query # <<>> THEN SelectSeq(all, Matches) ELSE all

\* update_filtered_sessions handing the list over newest match first
update_filtered_sessions_reversed(sess, favOnly, query) ==
  LET all == [i \in 1..Len(sess) |-> i]
      IsFav(i) == sess[i].is_favorite
      byFav == IF favOnly THEN SelectSeq(all, IsFav) ELSE all
      q == Lower(query)
      Matches(i) == Contains(q, Lower(sess[i].name))
      kept == IF query # <<>> THEN SelectSeq(byFav, Matches) ELSE byFav
  IN  [i \in 1..Len(kept) |-> kept[Len(kept) + 1 - i]]

update_filtered_sessions(sess, favOnly, query) ==
  LET all == [i \in 1..Len(sess) |-> i]
      IsFav(i) == sess[i].is_favorite
      byFav == IF favOnly THEN SelectSeq(all, IsFav) ELSE all
      q == Lower(query)
      Matches(i) == Contains(q, Lower(sess[i].name))
  IN  IF query # <<>> THEN SelectSeq(byFav, Matches) ELSE byFav


(***************************************************************************)
(* The state: the application, and the surroundings it talks to.           *)
(***************************************************************************)
VARIABLES
  \* TpikApp
  sessions,             \* self.sessions: the TmuxSession objects of the last poll
  filtered_sessions,    \* self.filtered_sessions: references into sessions
  search_query,         \* self.search_query
  show_favorites_only,  \* self.show_favorites_only
  current_session,      \* self.current_session
  status,               \* the text of the status bar (its kind)
  appState,             \* "init" before on_mount, "running", "quit", "crashed"
  refreshPending,       \* refresh_sessions workers scheduled and not yet started
  polling,              \* list-sessions commands in progress
  \* surroundings
  tmuxAvail,            \* a tmux executable can be run
  insideTmux,           \* "TMUX" in os.environ
  ownSession,           \* the tmux session this process runs in, or None
  server,               \* the sessions of the tmux server, in listing order
  favFile,              \* the text of ~/.config/tpik/favorites
  favWritable,          \* writing that file succeeds
  handoff,              \* the text of ~/.tpik_session, or None
  created,              \* how many sessions this run has created
  \* what the operations did
  trace,                \* the external commands issued by the operation that
                        \* wrote the status bar last, in order
  call,                 \* the last direct call of a TmuxManager method
  prev                  \* the direct call before it

appVars == << sessions, filtered_sessions, search_query, show_favorites_only,
              current_session, status, appState, refreshPending, polling >>

envVars == << tmuxAvail, insideTmux, ownSession, server, favFile, favWritable,
              handoff, created >>

vars == << sessions, filtered_sessions, search_query, show_favorites_only,
           current_session, status, appState, refreshPending, polling,
           tmuxAvail, insideTmux, ownSession, server, favFile, favWritable,
           handoff, created,
           trace, call, prev >>

(***************************************************************************)
(* Values the inputs are drawn from.                                       *)
(***************************************************************************)
work    == <<"w", "o", "r", "k">>
scratch == <<"s", "c", "r", "a", "t", "c", "h">>
shout   == <<"W", "O", "R", "K">>
\* a session name with a trailing space (tmux accepts it)
padded  == <<"a", " ">>

\* a session name with a pipe in it (tmux accepts it): in the listing its
\* second part stands where the creation time is expected
piped   == <<"c", "|">> \o [i \in 1..20 |-> "9"]

\* f"{n:03d}" for 0 <= n < 1000
Pad3(n) == << DigitChars[(n \div 100) + 1],
              DigitChars[((n \div 10) % 10) + 1],
              DigitChars[(n % 10) + 1] >>

\* f"session-{n:03d}"
SessionName(n) == <<"s", "e", "s", "s", "i", "o", "n", "-">> \o Pad3(n)

\* search texts the user may type
Queries == { <<>>, <<"w", "o">>, <<"W", "O">>, <<"c">> }

\* search texts typed while the application runs
TypedQueries == { <<>>, <<"w", "o">> }

NoCall == [op |-> None]

(***************************************************************************)
(* The tmux server as the commands see it.                                 *)
(***************************************************************************)
Exists(srv, name) == \E i \in 1..Len(srv) : srv[i] = name

Without(srv, name) ==
  LET Keep(n) == n # name IN SelectSeq(srv, Keep)

\* what the format string of get_sessions prints for one session:
\*   name|created|windows|attached|window_name
ListingLine(name) ==
  IF name = work
  THEN name \o <<"|", "1", "7", "|", "3", "|", "1", "|", "v", "i", "m">>
  ELSE IF name = scratch
  THEN name \o <<"|", "1", "8", "|", "1", "|", "0", "|">>
  ELSE name \o <<"|", "1", "9", "|", "1", "|", "0", "|", "s", "h">>

\* stdout of tmux list-sessions -F ...
RECURSIVE ListingOutput(_)
ListingOutput(srv) ==
  IF srv = <<>> THEN <<>>
  ELSE ListingLine(Head(srv)) \o <<"\n">> \o ListingOutput(Tail(srv))

\* tmux list-sessions exits non-zero when the server has no session
ListingOutcome(avail, srv) ==
  IF ~avail THEN "unavailable" ELSE IF srv = <<>> THEN "nonzero" ELSE "ok"

Cmd(c, t, r) == [cmd |-> c, target |-> t, rc |-> r]

\* exit status of a command that needs the target to exist; cmdOk = FALSE is
\* a failure of the command for any other reason
RcOf(srv, name, cmdOk) == IF cmdOk /\ Exists(srv, name) THEN 0 ELSE 1

(***************************************************************************)
(* TmuxManager.kill_session / create_session: the result, the commands     *)
(* issued and the server afterwards.  avail = FALSE makes subprocess.run   *)
(* raise, which both methods catch.                                        *)
(***************************************************************************)
\* kill_session reporting success whatever the exit status
kill_session_unchecked(avail, srv, session_name, cmdOk) ==
  IF ~avail
  THEN [success |-> FALSE, message |-> "Error", cmds |-> <<>>, server |-> srv]
  ELSE LET rc == RcOf(srv, session_name, cmdOk) IN
       [success |-> TRUE,
        message |-> "Killed session",
        cmds    |-> <<Cmd("kill-session", session_name, rc)>>,
        server  |-> IF rc = 0 THEN Without(srv, session_name) ELSE srv]

kill_session(avail, srv, session_name, cmdOk) ==
  IF ~avail
  THEN [success |-> FALSE, message |-> "Error", cmds |-> <<>>, server |-> srv]
  ELSE LET rc == RcOf(srv, session_name, cmdOk) IN
       [success |-> rc = 0,
        message |-> IF rc = 0 THEN "Killed session" ELSE "Failed to kill session",
        cmds    |-> <<Cmd("kill-session", session_name, rc)>>,
        server  |-> IF rc = 0 THEN Without(srv, session_name) ELSE srv]

\* create_session going on to new-session whatever has-session reported
create_session_unchecked(avail, srv, session_name, cmdOk) ==
  IF ~avail
  THEN [success |-> FALSE, message |-> "Error", cmds |-> <<>>, server |-> srv]
  ELSE LET has == IF Exists(srv, session_name) THEN 0 ELSE 1
           rc  == IF cmdOk /\ has # 0 THEN 0 ELSE 1
       IN  [success |-> rc = 0,
            message |-> IF rc = 0 THEN "Created session"
                        ELSE "Failed to create session",
            cmds |-> << Cmd("has-session", session_name, has),
                        Cmd("new-session", session_name, rc) >>,
            server |-> IF rc = 0 THEN Append(srv, session_name) ELSE srv]

create_session(avail, srv, session_name, cmdOk) ==
  IF ~avail
  THEN [success |-> FALSE, message |-> "Error", cmds |-> <<>>, server |-> srv]
  ELSE LET has == IF Exists(srv, session_name) THEN 0 ELSE 1
           rc  == IF cmdOk THEN 0 ELSE 1
       IN  IF has = 0
           THEN [success |-> FALSE, message |-> "already exists",
                 cmds |-> <<Cmd("has-session", session_name, has)>>,
                 server |-> srv]
           ELSE [success |-> rc = 0,
                 message |-> IF rc = 0 THEN "Created session"
                             ELSE "Failed to create session",
                 cmds |-> << Cmd("has-session", session_name, has),
                             Cmd("new-session", session_name, rc) >>,
                 server |-> IF rc = 0 THEN Append(srv, session_name) ELSE srv]

\* attach_session taking the branch for a process outside tmux always
attach_session_never_nested(avail, inside, srv, session_name, cmdOk) ==
  IF ~avail
  THEN [success |-> FALSE, message |-> "Error", cmds |-> <<>>]
  ELSE LET rc == RcOf(srv, session_name, cmdOk) IN
       [success |-> rc = 0,
        message |-> IF rc = 0 THEN "Preparing to attach" ELSE "does not exist",
        cmds    |-> <<Cmd("has-session", session_name, rc)>>]

\* attach_session reporting success whatever has-session answered
attach_session_unchecked(avail, inside, srv, session_name, cmdOk) ==
  IF ~avail
  THEN [success |-> FALSE, message |-> "Error", cmds |-> <<>>]
  ELSE LET rc == RcOf(srv, session_name, cmdOk) IN
       IF inside
       THEN [success |-> rc = 0,
             message |-> IF rc = 0 THEN "Switched to session" ELSE "Failed to switch",
             cmds    |-> <<Cmd("switch-client", session_name, rc)>>]
       ELSE [success |-> TRUE,
             message |-> "Preparing to attach",
             cmds    |-> <<Cmd("has-session", session_name, rc)>>]

attach_session(avail, inside, srv, session_name, cmdOk) ==
  IF ~avail
  THEN [success |-> FALSE, message |-> "Error", cmds |-> <<>>]
  ELSE LET rc == RcOf(srv, session_name, cmdOk) IN
       IF inside
       THEN [success |-> rc = 0,
             message |-> IF rc = 0 THEN "Switched to session" ELSE "Failed to switch",
             cmds    |-> <<Cmd("switch-client", session_name, rc)>>]
       ELSE [success |-> rc = 0,
             message |-> IF rc = 0 THEN "Preparing to attach" ELSE "does not exist",
             cmds    |-> <<Cmd("has-session", session_name, rc)>>]

\* TmuxManager.is_tmux_available: tmux -V could be run and exited with 0
is_tmux_available(avail) == avail

\* TmuxManager.get_current_session: the value returned and the commands issued
get_current_session(inside, own, displayOk) ==
  IF ~inside THEN [value |-> None, cmds |-> <<>>]
  ELSE IF displayOk
  THEN [value |-> Strip(own), cmds |-> <<Cmd("display-message", None, 0)>>]
  ELSE [value |-> None, cmds |-> <<Cmd("display-message", None, 1)>>]

(***************************************************************************)
(* TpikApp.                                                                *)
(***************************************************************************)
\* The handlers and the refresh worker are coroutines of one event loop, and
\* subprocess.run blocks it: nothing else runs while a poll is in progress.
LoopFree == polling = 0

\* a worker started without exclusive=True: the scheduled ones stay
StartWorkerShared(pending) == pending + 1

\* @work(exclusive=True): starting a worker cancels the workers of the group
\* that are still scheduled, so one is left
StartWorker(pending) == 1

\* The names of the displayed sessions, in display order
FilteredNames == [i \in 1..Len(filtered_sessions) |-> sessions[filtered_sessions[i]].name]

\* get_selected_session with the k-th list item highlighted (0: none): the
\* first session of filtered_sessions that has the item's name, as a reference
get_selected_session(k) ==
  IF k = 0 \/ filtered_sessions = <<>> THEN 0
  ELSE LET session_name == FilteredNames[k]
           i == CHOOSE j \in 1..Len(filtered_sessions) :
                  /\ FilteredNames[j] = session_name
                  /\ \A h \in 1..(j - 1) : FilteredNames[h] # session_name
       IN  filtered_sessions[i]

Selections == 0..Len(filtered_sessions)

Handling == appState = "running" /\ LoopFree

on_mount ==
  /\ appState = "init"
  /\ IF ~is_tmux_available(tmuxAvail)
     THEN /\ status' = "tmux is not installed"
          /\ appState' = "quit"
          /\ trace' = <<Cmd("-V", None, 1)>>
          /\ UNCHANGED << current_session, refreshPending >>
     ELSE \E displayOk \in BOOLEAN :
            LET r == get_current_session(insideTmux, ownSession, displayOk) IN
            /\ current_session' = r.value
            /\ status' = IF r.value # None /\ r.value # <<>>
                         THEN "Inside session" ELSE status
            /\ refreshPending' = StartWorker(refreshPending)
            /\ appState' = "running"
            /\ trace' = <<Cmd("-V", None, IF tmuxAvail THEN 0 ELSE 1)>> \o r.cmds
  /\ UNCHANGED << sessions, filtered_sessions, search_query, show_favorites_only,
                  polling, call, prev >>
  /\ UNCHANGED envVars

\* F5 or the refresh button: refresh_sessions() schedules the worker
refresh_request ==
  /\ Handling
  /\ refreshPending' = StartWorker(refreshPending)
  /\ UNCHANGED << sessions, filtered_sessions, search_query, show_favorites_only,
                  current_session, status, appState, polling, trace, call, prev >>
  /\ UNCHANGED envVars

\* the worker starts: the status is set and tmux list-sessions is running
refresh_poll ==
  /\ Handling
  /\ refreshPending > 0
  /\ refreshPending' = refreshPending - 1
  /\ polling' = polling + 1
  /\ status' = "Refreshing sessions"
  /\ trace' = <<>>
  /\ UNCHANGED << sessions, filtered_sessions, search_query, show_favorites_only,
                  current_session, appState, call, prev >>
  /\ UNCHANGED envVars

\* refresh_sessions replacing sessions and leaving the displayed list alone
refresh_sessions_list_only ==
  /\ appState = "running"
  /\ polling > 0
  /\ \E readOk \in BOOLEAN :
       LET outcome == ListingOutcome(tmuxAvail, server)
           r == get_sessions(outcome, ListingOutput(server), favFile, readOk)
       IN  IF r.raised
           THEN /\ appState' = "crashed"
                /\ UNCHANGED << sessions, status >>
                /\ trace' = <<Cmd("list-sessions", None, 0)>>
           ELSE /\ sessions' = r.value
                /\ status' = "Found sessions"
                /\ appState' = appState
                /\ trace' = <<Cmd("list-sessions", None,
                                  IF outcome = "ok" THEN 0 ELSE 1)>>
  /\ polling' = polling - 1
  /\ UNCHANGED << filtered_sessions, search_query, show_favorites_only,
                  current_session, refreshPending, call, prev >>
  /\ UNCHANGED envVars

\* the command returned: the rest of refresh_sessions.  An exception of
\* get_sessions leaves the worker, and a failed worker ends the application
\* (exit_on_error is left at its default).
refresh_sessions ==
  /\ appState = "running"
  /\ polling > 0
  /\ \E readOk \in BOOLEAN :
       LET outcome == ListingOutcome(tmuxAvail, server)
           r == get_sessions(outcome, ListingOutput(server), favFile, readOk)
       IN  IF r.raised
           THEN /\ appState' = "crashed"
                /\ UNCHANGED << sessions, filtered_sessions, status >>
                /\ trace' = <<Cmd("list-sessions", None, 0)>>
           ELSE /\ sessions' = r.value
                /\ filtered_sessions' =
                     update_filtered_sessions(r.value, show_favorites_only,
                                              search_query)
                /\ status' = "Found sessions"
                /\ appState' = appState
                /\ trace' = <<Cmd("list-sessions", None,
                                  IF outcome = "ok" THEN 0 ELSE 1)>>
  /\ polling' = polling - 1
  /\ UNCHANGED << search_query, show_favorites_only, current_session,
                  refreshPending, call, prev >>
  /\ UNCHANGED envVars

\* on_input_changed flipping the favorites filter as well
on_input_changed_and_filter(value) ==
  /\ Handling
  /\ search_query' = value
  /\ show_favorites_only' = ~show_favorites_only
  /\ filtered_sessions' =
       update_filtered_sessions(sessions, ~show_favorites_only, value)
  /\ UNCHANGED << sessions, current_session, status, appState,
                  refreshPending, polling, trace, call, prev >>
  /\ UNCHANGED envVars

on_input_changed(value) ==
  /\ Handling
  /\ search_query' = value
  /\ filtered_sessions' = update_filtered_sessions(sessions, show_favorites_only, value)
  /\ UNCHANGED << sessions, show_favorites_only, current_session, status, appState,
                  refreshPending, polling, trace, call, prev >>
  /\ UNCHANGED envVars

action_toggle_favorites_filter ==
  /\ Handling
  /\ show_favorites_only' = ~show_favorites_only
  /\ status' = IF ~show_favorites_only THEN "Favorites filter: ON"
               ELSE "Favorites filter: OFF"
  /\ filtered_sessions' =
       update_filtered_sessions(sessions, ~show_favorites_only, search_query)
  /\ trace' = <<>>
  /\ UNCHANGED << sessions, search_query, current_session, appState,
                  refreshPending, polling, call, prev >>
  /\ UNCHANGED envVars

\* filtered_sessions is not recomputed here: update_session_list only redraws
action_toggle_favorite(k, readOk) ==
  /\ Handling
  /\ LET ref == get_selected_session(k) IN
     IF ref = 0
     THEN /\ status' = "No session selected"
          /\ UNCHANGED << sessions, favFile >>
     ELSE LET r == toggle_favorite(favFile, sessions[ref].name, readOk, favWritable) IN
          /\ sessions' = [sessions EXCEPT ![ref].is_favorite = r.ret]
          /\ favFile' = r.file
          /\ status' = IF r.ret THEN "Added to favorites" ELSE "Removed from favorites"
  /\ trace' = <<>>
  /\ UNCHANGED << filtered_sessions, search_query, show_favorites_only,
                  current_session, appState, refreshPending, polling, call, prev >>
  /\ UNCHANGED << tmuxAvail, insideTmux, ownSession, server, favWritable,
                  handoff, created >>

action_kill_session(k, cmdOk) ==
  /\ Handling
  /\ LET ref == get_selected_session(k) IN
     IF ref = 0
     THEN /\ status' = "No session selected"
          /\ trace' = <<>>
          /\ UNCHANGED << server, refreshPending >>
     ELSE IF sessions[ref].name = current_session
     THEN /\ status' = "Cannot kill current session"
          /\ trace' = <<>>
          /\ UNCHANGED << server, refreshPending >>
     ELSE LET r == kill_session(tmuxAvail, server, sessions[ref].name, cmdOk) IN
          /\ status' = r.message
          /\ trace' = r.cmds
          /\ server' = r.server
          /\ refreshPending' = IF r.success THEN StartWorker(refreshPending)
                               ELSE refreshPending
  /\ UNCHANGED << sessions, filtered_sessions, search_query, show_favorites_only,
                  current_session, appState, polling, call, prev >>
  /\ UNCHANGED << tmuxAvail, insideTmux, ownSession, favFile, favWritable,
                  handoff, created >>

action_new_session(cmdOk) ==
  /\ Handling
  /\ LET session_name == SessionName(Len(sessions) + 1)
         r == create_session(tmuxAvail, server, session_name, cmdOk)
     IN  /\ r.success => created < MaxCreate
         /\ status' = r.message
         /\ trace' = r.cmds
         /\ server' = r.server
         /\ created' = IF r.success THEN created + 1 ELSE created
         /\ refreshPending' = IF r.success THEN StartWorker(refreshPending)
                              ELSE refreshPending
  /\ UNCHANGED << sessions, filtered_sessions, search_query, show_favorites_only,
                  current_session, appState, polling, call, prev >>
  /\ UNCHANGED << tmuxAvail, insideTmux, ownSession, favFile, favWritable, handoff >>

action_attach(k, cmdOk) ==
  /\ Handling
  /\ LET ref == get_selected_session(k) IN
     IF ref = 0
     THEN /\ status' = "No session selected"
          /\ trace' = <<>>
          /\ UNCHANGED << refreshPending, handoff, appState >>
     ELSE LET r == attach_session(tmuxAvail, insideTmux, server,
                                  sessions[ref].name, cmdOk) IN
          /\ status' = r.message
          /\ trace' = r.cmds
          /\ refreshPending' = IF r.success /\ insideTmux
                               THEN StartWorker(refreshPending) ELSE refreshPending
          /\ handoff' = IF r.success /\ ~insideTmux THEN sessions[ref].name ELSE handoff
          /\ appState' = IF r.success /\ ~insideTmux THEN "quit" ELSE appState
  /\ UNCHANGED << sessions, filtered_sessions, search_query, show_favorites_only,
                  current_session, polling, call, prev >>
  /\ UNCHANGED << tmuxAvail, insideTmux, ownSession, server, favFile, favWritable,
                  created >>

action_quit ==
  /\ Handling
  /\ appState' = "quit"
  /\ UNCHANGED << sessions, filtered_sessions, search_query, show_favorites_only,
                  current_session, status, refreshPending, polling, trace, call, prev >>
  /\ UNCHANGED envVars

(***************************************************************************)
(* The application from construction on.                                   *)
(***************************************************************************)
\* the server's sessions when the program starts
InitialServers == { <<>>, <<work>>, <<piped>> }

\* the favorites file when the program starts
InitialFavorites == { <<>>, scratch \o <<"\n">> }

\* the application object right after construction
AppConstructed ==
  /\ sessions = <<>>
  /\ filtered_sessions = <<>>
  /\ search_query = <<>>
  /\ show_favorites_only = FALSE
  /\ current_session = None
  /\ status = "Ready"
  /\ appState = "init"
  /\ refreshPending = 0
  /\ polling = 0
  /\ handoff = None
  /\ created = 0
  /\ trace = <<>>
  /\ call = NoCall
  /\ prev = NoCall

Surroundings ==
  /\ tmuxAvail \in BOOLEAN
  /\ server \in InitialServers
  /\ insideTmux \in BOOLEAN
  /\ ownSession \in IF insideTmux THEN {n \in {work} : Exists(server, n)} ELSE {None}
  /\ favFile \in InitialFavorites

\* the favorites file stays writable
Init == AppConstructed /\ Surroundings /\ favWritable = TRUE

Next ==
  \/ on_mount
  \/ refresh_request
  \/ refresh_poll
  \/ refresh_sessions
  \/ \E value \in TypedQueries : on_input_changed(value)
  \/ action_toggle_favorites_filter
  \/ \E k \in Selections, readOk \in BOOLEAN : action_toggle_favorite(k, readOk)
  \/ \E k \in Selections, cmdOk \in BOOLEAN : action_kill_session(k, cmdOk)
  \/ \E cmdOk \in BOOLEAN : action_new_session(cmdOk)
  \/ \E k \in Selections, cmdOk \in BOOLEAN : action_attach(k, cmdOk)
  \/ action_quit

Spec == Init /\ [][Next]_vars

(***************************************************************************)
(* The filter engine on its own: the application is running, a refresh has *)
(* just delivered some listing, and the user types and toggles the filter. *)
(***************************************************************************)
NoRepeat(q) == \A i, j \in 1..Len(q) : i # j => q[i] # q[j]

RECURSIVE SeqsUpTo(_, _)
\* the sequences over S of length at most n
SeqsUpTo(S, n) ==
  IF n = 0 THEN {<<>>}
  ELSE LET shorter == SeqsUpTo(S, n - 1)
       IN  shorter \cup {Append(q, x) : q \in shorter, x \in S}

\* tmux keeps session names unique
FilterServers == {q \in SeqsUpTo({work, scratch, shout}, MaxListed) : NoRepeat(q)}

FilterFavorites ==
  { <<>>,
    scratch \o <<"\n">>,
    work \o <<"\n">>,
    shout \o <<"\n">> \o scratch \o <<"\n">> }

InitFilter ==
  /\ \E srv \in FilterServers, fav \in FilterFavorites :
       /\ server = srv
       /\ favFile = fav
       /\ sessions = get_sessions(ListingOutcome(TRUE, srv), ListingOutput(srv),
                                  fav, TRUE).value
  /\ search_query = <<>>
  /\ show_favorites_only = FALSE
  /\ filtered_sessions = update_filtered_sessions(sessions, FALSE, <<>>)
  /\ current_session = None
  /\ status = "Found sessions"
  /\ appState = "running"
  /\ refreshPending = 0
  /\ polling = 0
  /\ tmuxAvail = TRUE
  /\ insideTmux = FALSE
  /\ ownSession = None
  /\ favWritable = TRUE
  /\ handoff = None
  /\ created = 0
  /\ trace = <<Cmd("list-sessions", None, IF server = <<>> THEN 1 ELSE 0)>>
  /\ call = NoCall
  /\ prev = NoCall

NextFilter ==
  \/ \E value \in Queries : on_input_changed(value)
  \/ action_toggle_favorites_filter

SpecFilter == InitFilter /\ [][NextFilter]_vars

(***************************************************************************)
(* TmuxManager called directly.  The application is only constructed; the  *)
(* caller's calls and their results are recorded in call and prev.         *)
(***************************************************************************)
AppIdle ==
  /\ AppConstructed
  /\ insideTmux = FALSE
  /\ ownSession = None
  /\ favWritable = TRUE

\* --- the favorites store ---
StoreNames == {work, scratch, padded}

\* files as save_favorites writes them, one whose lines are not sorted, and
\* one with blank lines and spaces as an editor may leave it
StoreFiles ==
  { <<>>,
    scratch \o <<"\n">>,
    scratch \o <<"\n">> \o work \o <<"\n">>,
    work \o <<"\n">> \o scratch \o <<"\n">>,
    <<"\n", " ">> \o work \o <<" ", "\n", "\n">> }

InitStore ==
  /\ AppIdle
  /\ tmuxAvail = TRUE
  /\ server = <<>>
  /\ favFile \in StoreFiles

CallToggle(session_name, readOk, writeOk) ==
  LET r == toggle_favorite(favFile, session_name, readOk, writeOk) IN
  /\ favFile' = r.file
  /\ prev' = call
  /\ call' = [op |-> "toggle_favorite", name |-> session_name, before |-> favFile,
              ret |-> r.ret, readOk |-> readOk, writeOk |-> writeOk]
  /\ UNCHANGED appVars
  /\ UNCHANGED << tmuxAvail, insideTmux, ownSession, server, favWritable, handoff,
                  created, trace >>

CallLoad(readOk) ==
  /\ call.op # "load_favorites"
  /\ prev' = call
  /\ call' = [op |-> "load_favorites", name |-> None, before |-> favFile,
              ret |-> load_favorites(favFile, readOk), readOk |-> readOk,
              writeOk |-> TRUE]
  /\ UNCHANGED appVars
  /\ UNCHANGED envVars
  /\ UNCHANGED trace

NextStore ==
  \/ \E n \in StoreNames, readOk \in BOOLEAN, writeOk \in BOOLEAN :
       CallToggle(n, readOk, writeOk)
  \/ \E readOk \in BOOLEAN : CallLoad(readOk)

SpecStore == InitStore /\ [][NextStore]_vars

\* --- the session listing ---
LinePool ==
  { work \o <<"|", "1", "7", "|", "3", "|", "1", "|", "v", "i", "m">>,
    scratch \o <<"|", "1", "8", "|", "1", "|", "0", "|">>,
    shout \o <<"|", "x", "|", "y", "|", "1">>,
    <<"b", "a", "d", "-", "l", "i", "n", "e">>,
    <<"x", "|", "1", "7">>,
    <<" ">>,
    \* a creation time of twenty digits and a negative window count
    <<"c", "|">> \o [i \in 1..20 |-> "9"] \o <<"|", "-", "1", "|", "0">>,
    \* a creation time in the year 33658
    <<"k", "|">> \o [i \in 1..12 |-> "9"] \o <<"|", "0", "7", "|", "1", "1", "|">> }

\* the output whose lines are the given ones, each ended by a newline
RECURSIVE OutputOf(_)
OutputOf(lines) ==
  IF lines = <<>> THEN <<>>
  ELSE Head(lines) \o <<"\n">> \o OutputOf(Tail(lines))

InitList ==
  /\ AppIdle
  /\ tmuxAvail \in BOOLEAN
  /\ server = <<>>
  /\ favFile \in InitialFavorites

CallGetSessions(outcome, lines, readOk) ==
  /\ call = NoCall
  /\ (outcome = "unavailable") = ~tmuxAvail
  /\ outcome # "ok" => lines = <<>>
  /\ call' = [op |-> "get_sessions", outcome |-> outcome, lines |-> lines,
              readOk |-> readOk,
              ret |-> get_sessions(outcome, OutputOf(lines), favFile, readOk)]
  /\ UNCHANGED appVars
  /\ UNCHANGED envVars
  /\ UNCHANGED << trace, prev >>

NextList ==
  \E outcome \in ListingOutcomes, lines \in SeqsUpTo(LinePool, MaxLines),
     readOk \in BOOLEAN : CallGetSessions(outcome, lines, readOk)

SpecList == InitList /\ [][NextList]_vars

\* --- create and kill ---
CmdNames == {work, scratch, SessionName(1)}

InitCmd ==
  /\ AppIdle
  /\ tmuxAvail \in BOOLEAN
  /\ server \in {q \in SeqsUpTo({work, scratch}, MaxServer) : NoRepeat(q)}
  /\ favFile = <<>>

CallCreate(session_name, cmdOk) ==
  LET r == create_session(tmuxAvail, server, session_name, cmdOk) IN
  /\ Len(r.server) <= MaxServer
  /\ server' = r.server
  /\ trace' = r.cmds
  /\ call' = [op |-> "create_session", name |-> session_name, server |-> server,
              success |-> r.success, message |-> r.message]
  /\ UNCHANGED appVars
  /\ UNCHANGED << tmuxAvail, insideTmux, ownSession, favFile, favWritable, handoff,
                  created, prev >>

CallKill(session_name, cmdOk) ==
  LET r == kill_session(tmuxAvail, server, session_name, cmdOk) IN
  /\ server' = r.server
  /\ trace' = r.cmds
  /\ call' = [op |-> "kill_session", name |-> session_name, server |-> server,
              success |-> r.success, message |-> r.message]
  /\ UNCHANGED appVars
  /\ UNCHANGED << tmuxAvail, insideTmux, ownSession, favFile, favWritable, handoff,
                  created, prev >>

NextCmd ==
  \/ \E n \in CmdNames, cmdOk \in BOOLEAN : CallCreate(n, cmdOk)
  \/ \E n \in CmdNames, cmdOk \in BOOLEAN : CallKill(n, cmdOk)

SpecCmd == InitCmd /\ [][NextCmd]_vars

\* --- get_sessions statement by statement, the favorites file being edited
\* --- by another process meanwhile ---
SnapLines ==
  { work \o <<"|", "1", "7", "|", "3", "|", "1", "|", "v", "i", "m">>,
    scratch \o <<"|", "1", "8", "|", "1", "|", "0", "|">>,
    <<"b", "a", "d", "-", "l", "i", "n", "e">> }

SnapFiles == { <<>>, scratch \o <<"\n">>, work \o <<"\n">> }

InitSnap ==
  /\ AppIdle
  /\ tmuxAvail = TRUE
  /\ server = <<>>
  /\ favFile \in SnapFiles

\* the favorites the loop tests a name against, with the file re-read for
\* every record
FavoritesReloaded(c) == load_favorites(favFile, c.readOk)

\* the favorites the loop tests a name against: the local variable
FavoritesInLoop(c) == c.favorites

\* subprocess.run returned with exit status 0
GetSessionsRun(lines) ==
  /\ call = NoCall
  /\ call' = [op |-> "get_sessions_steps", pc |-> "load",
              stdout |-> OutputOf(lines),
              rest |-> Split(Strip(OutputOf(lines)), "\n"),
              sessions |-> <<>>, favorites |-> {}, fileAtLoad |-> <<>>,
              readOk |-> TRUE, loads |-> 0]
  /\ UNCHANGED appVars
  /\ UNCHANGED envVars
  /\ UNCHANGED << trace, prev >>

\* favorites = self.load_favorites()
GetSessionsLoad(readOk) ==
  /\ call.op = "get_sessions_steps"
  /\ call.pc = "load"
  /\ call' = [call EXCEPT !.pc = "loop",
                          !.favorites = load_favorites(favFile, readOk),
                          !.fileAtLoad = favFile,
                          !.readOk = readOk,
                          !.loads = @ + 1]
  /\ UNCHANGED appVars
  /\ UNCHANGED envVars
  /\ UNCHANGED << trace, prev >>

\* one iteration of the loop over the lines
GetSessionsLine ==
  /\ call.op = "get_sessions_steps"
  /\ call.pc = "loop"
  /\ call.rest # <<>>
  /\ LET line == Head(call.rest)
         parts == Split(line, "|")
     IN  call' = [call EXCEPT
                    !.rest = Tail(@),
                    !.sessions =
                      IF Strip(line) = <<>> THEN @
                      ELSE IF Len(parts) >= 4
                      THEN Append(@, ParseLine(parts, FavoritesInLoop(call)))
                      ELSE @]
  /\ UNCHANGED appVars
  /\ UNCHANGED envVars
  /\ UNCHANGED << trace, prev >>

\* return sessions
GetSessionsReturn ==
  /\ call.op = "get_sessions_steps"
  /\ call.pc = "loop"
  /\ call.rest = <<>>
  /\ call' = [call EXCEPT !.pc = "done"]
  /\ UNCHANGED appVars
  /\ UNCHANGED envVars
  /\ UNCHANGED << trace, prev >>

\* another process rewrites the favorites file while the call is running
EditFavorites(content) ==
  /\ call.op = "get_sessions_steps"
  /\ call.pc # "done"
  /\ content # favFile
  /\ favFile' = content
  /\ UNCHANGED appVars
  /\ UNCHANGED << tmuxAvail, insideTmux, ownSession, server, favWritable, handoff,
                  created, trace, call, prev >>

NextSnap ==
  \/ \E lines \in SeqsUpTo(SnapLines, MaxLines) : GetSessionsRun(lines)
  \/ \E readOk \in BOOLEAN : GetSessionsLoad(readOk)
  \/ GetSessionsLine
  \/ GetSessionsReturn
  \/ \E content \in SnapFiles : EditFavorites(content)

SpecSnap == InitSnap /\ [][NextSnap]_vars

\* --- toggling favorites in the running application, the favorites file
\* --- being writable or not ---
ToggleServers == { <<work>>, <<padded>>, <<work, scratch>>, <<scratch, padded>> }

InitToggle ==
  /\ \E srv \in ToggleServers, fav \in FilterFavorites :
       /\ server = srv
       /\ favFile = fav
       /\ sessions = get_sessions(ListingOutcome(TRUE, srv), ListingOutput(srv),
                                  fav, TRUE).value
  /\ search_query = <<>>
  /\ show_favorites_only = FALSE
  /\ filtered_sessions = update_filtered_sessions(sessions, FALSE, <<>>)
  /\ current_session = None
  /\ status = "Found sessions"
  /\ appState = "running"
  /\ refreshPending = 0
  /\ polling = 0
  /\ tmuxAvail = TRUE
  /\ insideTmux = FALSE
  /\ ownSession = None
  /\ favWritable \in BOOLEAN
  /\ handoff = None
  /\ created = 0
  /\ trace = <<Cmd("list-sessions", None, 0)>>
  /\ call = NoCall
  /\ prev = NoCall

NextToggle ==
  \/ \E k \in Selections, readOk \in BOOLEAN : action_toggle_favorite(k, readOk)
  \/ action_toggle_favorites_filter

SpecToggle == InitToggle /\ [][NextToggle]_vars


(***************************************************************************)
(* The claims.                                                             *)
(***************************************************************************)
\* the filter predicate of the specification, for the session at index i
Kept(i) ==
  /\ (~show_favorites_only \/ sessions[i].is_favorite)
  /\ (search_query = <<>>
        \/ Contains(Lower(search_query), Lower(sessions[i].name)))

Displayed(i) == \E k \in 1..Len(filtered_sessions) : filtered_sessions[k] = i

\* C1: whenever no handler is running, filtered_sessions is the result of
\* applying the current predicate (show_favorites_only, search_query) to
\* sessions with their current is_favorite flags.
C1_FilteredNeverStale ==
  LoopFree =>
    filtered_sessions =
      update_filtered_sessions(sessions, show_favorites_only, search_query)

\* C2: the list computed by update_filtered_sessions holds only elements of
\* sessions, and a session is in it iff (the favorites filter is off or it is
\* a favorite) and (the query is empty or its lowercased name contains the
\* lowercased query).
C2_FilterMembership ==
  /\ \A k \in 1..Len(filtered_sessions) : filtered_sessions[k] \in 1..Len(sessions)
  /\ \A i \in 1..Len(sessions) : Displayed(i) <=> Kept(i)

C2_Witness ==
  /\ show_favorites_only
  /\ search_query = <<"W", "O">>
  /\ Len(sessions) = 2
  /\ FilteredNames = <<work>>

\* the sessions of the scenario: work (not favorite), scratch (favorite)
Scenario ==
  /\ Len(sessions) = 2
  /\ sessions[1].name = work /\ ~sessions[1].is_favorite
  /\ sessions[2].name = scratch /\ sessions[2].is_favorite

\* C3 as stated: over the scenario, the query "wo" yields only work, and with
\* the favorites filter then switched on (query unchanged) only scratch.
C3_QueryThenFavoritesYieldsScratch ==
  Scenario /\ search_query = <<"w", "o">> =>
    /\ ~show_favorites_only => FilteredNames = <<work>>
    /\ show_favorites_only => FilteredNames = <<scratch>>

\* C3 amended: over the scenario, the query "wo" yields only work; with the
\* favorites filter then switched on and the query still "wo" the list is
\* empty; only scratch is listed once the query is empty.
C3_QueryThenFavoritesYieldsNothing ==
  Scenario =>
    /\ search_query = <<"w", "o">> /\ ~show_favorites_only => FilteredNames = <<work>>
    /\ search_query = <<"w", "o">> /\ show_favorites_only => FilteredNames = <<>>
    /\ search_query = <<>> /\ show_favorites_only => FilteredNames = <<scratch>>

C3_Witness ==
  /\ Scenario
  /\ search_query = <<"w", "o">>
  /\ show_favorites_only
  /\ filtered_sessions = <<>>

\* C4: no tmux kill-session command is ever issued for the session this
\* process runs in.
C4_SelfKillGuard ==
  \A i \in 1..Len(trace) :
    trace[i].cmd = "kill-session" => trace[i].target # ownSession

\* C5: two toggle_favorite calls in a row for the same name, every read and
\* write succeeding, return opposite booleans, the second being the name's
\* original membership, and leave the file equal to the sorted serialization
\* of the original set.
C5_ToggleTwiceRestores ==
  ( /\ call.op = "toggle_favorite" /\ prev.op = "toggle_favorite"
    /\ call.name = prev.name
    /\ call.readOk /\ call.writeOk /\ prev.readOk /\ prev.writeOk )
  => LET original == load_favorites(prev.before, TRUE) IN
     /\ call.ret = ~prev.ret
     /\ call.ret = (call.name \in original)
     /\ favFile = favorites_text(original)

\* C6: after toggle_favorite(name) returned b, every read and write
\* succeeding, load_favorites() contains name iff b.
C6_ToggleReturnsMembership ==
  ( /\ call.op = "load_favorites" /\ prev.op = "toggle_favorite"
    /\ call.readOk /\ prev.readOk /\ prev.writeOk )
  => ((prev.name \in call.ret) <=> prev.ret)

\* C7: get_sessions never raises, and returns the empty list when the
\* listing command failed or could not be run.
C7_GetSessionsNeverRaises ==
  call.op = "get_sessions" =>
    /\ ~call.ret.raised
    /\ call.outcome # "ok" => call.ret.value = <<>>

\* C8: create_session for a name the server has returns (False, "already
\* exists") and issues no new-session; a new-session is only issued after a
\* has-session for the same name that reported absence.
C8_CreateChecksFirst ==
  call.op = "create_session" =>
    /\ Exists(call.server, call.name) /\ tmuxAvail =>
         /\ ~call.success
         /\ call.message = "already exists"
         /\ \A i \in 1..Len(trace) : trace[i].cmd # "new-session"
    /\ \A i \in 1..Len(trace) :
         trace[i].cmd = "new-session" =>
           \E j \in 1..(i - 1) :
             /\ trace[j].cmd = "has-session"
             /\ trace[j].target = trace[i].target
             /\ trace[j].rc # 0

C8_Witness ==
  /\ call.op = "create_session"
  /\ Exists(call.server, call.name)
  /\ call.message = "already exists"
  /\ trace = <<Cmd("has-session", call.name, 0)>>

\* C9: at most one list-sessions poll is in progress, and at most one
\* refresh worker is scheduled or polling, whatever refresh requests arrive.
C9_SingleFlight ==
  /\ polling <= 1
  /\ refreshPending + polling <= 1

\* the refresh of on_mount was still scheduled when action_new_session asked
\* for another (the session was named from an empty list although the server
\* had one), and one worker is left
C9_Witness ==
  /\ server = <<work, SessionName(1)>>
  /\ status = "Created session"
  /\ refreshPending = 1
  /\ polling = 0

\* a line get_sessions makes a record of
WellFormed(line) == Strip(line) # <<>> /\ Len(Split(line, "|")) >= 4

\* C10: the records of get_sessions are the well-formed lines of the output,
\* one record per line, in the order of the lines.
C10_OrderPreserved ==
  (call.op = "get_sessions" /\ call.outcome = "ok" /\ ~call.ret.raised) =>
    LET idx == [i \in 1..Len(call.lines) |-> i]
        Good(i) == WellFormed(call.lines[i])
        kept == SelectSeq(idx, Good)
        records == call.ret.value
    IN  /\ Len(records) = Len(kept)
        /\ \A k \in 1..Len(kept) :
             records[k].name = Split(call.lines[kept[k]], "|")[1]

C10_Witness ==
  /\ call.op = "get_sessions"
  /\ call.outcome = "ok"
  /\ Len(call.lines) = 3
  /\ ~WellFormed(call.lines[2])
  /\ Len(call.ret.value) = 2
  /\ call.ret.value[1].name = work
  /\ call.ret.value[2].name = scratch

\* the fields of a line
Fields(line) == Split(line, "|")

\* C11: a line of fewer than four fields yields no record and the records of
\* the other lines are what they are without it; a line of exactly four
\* fields yields a record whose window_preview is the empty string.
C11_ShortLinesDropped ==
  (call.op = "get_sessions" /\ call.outcome = "ok" /\ ~call.ret.raised) =>
    LET good == SelectSeq(call.lines, WellFormed)
        without == get_sessions("ok", OutputOf(good), favFile, call.readOk)
        records == call.ret.value
    IN  /\ Len(records) = Len(good)
        /\ records = without.value
        /\ \A k \in 1..Len(good) :
             /\ records[k].name = Fields(good[k])[1]
             /\ Len(Fields(good[k])) = 4 => records[k].window_preview = <<>>
             /\ Len(Fields(good[k])) > 4 =>
                  records[k].window_preview = Fields(good[k])[5]

C11_Witness ==
  /\ call.op = "get_sessions"
  /\ call.outcome = "ok"
  /\ Len(call.lines) = 3
  /\ Fields(call.lines[1]) = <<<<"b", "a", "d", "-", "l", "i", "n", "e">>>>
  /\ Len(Fields(call.lines[2])) = 4
  /\ Len(Fields(call.lines[3])) = 2
  /\ Len(call.ret.value) = 1
  /\ call.ret.value[1].name = shout
  /\ call.ret.value[1].window_preview = <<>>

\* C12: for every output, get_sessions returns one record per line of four
\* or more fields and no field value makes it raise: attached is true iff
\* the 4th field is "1", windows is the value of the 3rd field when that is
\* a non-negative integer in digits and 0 otherwise, and created is
\* "Unknown" whenever the 2nd field does not convert to a time.
C12_FieldValuesNeverReject ==
  (call.op = "get_sessions" /\ call.outcome = "ok") =>
    LET good == SelectSeq(call.lines, WellFormed)
        records == call.ret.value
    IN  /\ ~call.ret.raised
        /\ Len(records) = Len(good)
        /\ \A k \in 1..Len(good) :
             LET f == Fields(good[k]) IN
             /\ records[k].attached = (f[4] = <<"1">>)
             /\ records[k].windows = IF IsDigit(f[3]) THEN IntOf(f[3]) ELSE 0
             /\ records[k].created.kind \in {"time", "Unknown"}
             /\ ~IntParsable(f[2]) => records[k].created.kind = "Unknown"

\* C13: within one get_sessions call the favorites are loaded once, and the
\* is_favorite of every record is membership of its name in that one load,
\* whatever is written to the favorites file while the call runs.
C13_SingleSnapshot ==
  call.op = "get_sessions_steps" =>
    LET snapshot == load_favorites(call.fileAtLoad, call.readOk) IN
    /\ call.loads = (IF call.pc = "load" THEN 0 ELSE 1)
    /\ \A k \in 1..Len(call.sessions) :
         call.sessions[k].is_favorite = (call.sessions[k].name \in snapshot)
    /\ call.pc = "done" =>
         call.sessions =
           get_sessions("ok", call.stdout, call.fileAtLoad, call.readOk).value

\* the file was rewritten during the call: the record of scratch has the flag
\* of the load although the file no longer lists it
C13_Witness ==
  /\ call.op = "get_sessions_steps"
  /\ call.pc = "done"
  /\ call.fileAtLoad = scratch \o <<"\n">>
  /\ favFile = work \o <<"\n">>
  /\ Len(call.sessions) = 2
  /\ call.sessions[1].name = work /\ ~call.sessions[1].is_favorite
  /\ call.sessions[2].name = scratch /\ call.sessions[2].is_favorite

\* the messages action_attach may show after attach_session returned
AttachMessages ==
  {"Switched to session", "Failed to switch", "Preparing to attach", "does not exist"}

\* a step of action_attach that called attach_session
AttachStep ==
  /\ appState = "running"
  /\ status' \in AttachMessages
  /\ << status, trace >>' # << status, trace >>

\* C14: with TMUX in the environment, an attach request issues one
\* switch-client command and nothing else, the hand-off file is never
\* written and the application keeps running.
C14_NestedSwitches ==
  /\ [](insideTmux => handoff = None)
  /\ [][ (insideTmux /\ AttachStep) =>
          /\ Len(trace') = 1
          /\ trace'[1].cmd = "switch-client"
          /\ handoff' = None
          /\ appState' = "running" ]_vars

C14_Witness ==
  /\ insideTmux
  /\ status = "Switched to session"
  /\ trace = <<Cmd("switch-client", work, 0)>>
  /\ appState = "running"
  /\ handoff = None
  /\ refreshPending = 1

\* C15: outside tmux, the hand-off file exists only after has-session for
\* the chosen session exited with 0, it holds that session's name and
\* nothing else, and the application has quit only with the file written; a
\* failed check leaves the file unwritten and the application running.
C15_HandoffAfterCheck ==
  /\ [](handoff # None =>
          /\ ~insideTmux
          /\ trace = <<Cmd("has-session", handoff, 0)>>
          /\ \E k \in 1..Len(filtered_sessions) : FilteredNames[k] = handoff
          /\ Exists(server, handoff)
          /\ appState = "quit")
  /\ []((~insideTmux /\ status = "Preparing to attach") =>
          (handoff # None /\ appState = "quit"))
  /\ [][ (~insideTmux /\ AttachStep /\ trace'[1].rc # 0) =>
          /\ trace'[1].cmd = "has-session"
          /\ handoff' = None
          /\ appState' = "running" ]_vars

C15_Witness ==
  /\ ~insideTmux
  /\ handoff # None
  /\ handoff = work
  /\ trace = <<Cmd("has-session", work, 0)>>
  /\ status = "Preparing to attach"
  /\ appState = "quit"

\* C16: on_input_changed with the text the query already has, the list being
\* what the first call with that text left, changes nothing: not the list,
\* not sessions, the favorites filter, the favorites file, nor the commands
\* issued.
C16_SetQueryIdempotent ==
  [][ \A q \in Queries :
        ( /\ search_query = q
          /\ filtered_sessions =
               update_filtered_sessions(sessions, show_favorites_only, q)
          /\ on_input_changed(q) )
        => UNCHANGED vars ]_vars

\* the query "WO" was set over two sessions and hides one of them
C16_Witness ==
  /\ search_query = <<"W", "O">>
  /\ Len(sessions) = 2
  /\ Len(filtered_sessions) = 1
  /\ filtered_sessions =
       update_filtered_sessions(sessions, show_favorites_only, search_query)
  /\ ENABLED on_input_changed(search_query)

\* a name as load_favorites can return it
Trimmed(name) == name # <<>> /\ Strip(name) = name

\* C17: every loaded set holds only trimmed, non-empty names, and after a
\* toggle_favorite that saved the set S (read and write succeeding) the file
\* is the sorted serialization of S and load_favorites() returns exactly S.
C17_SaveLoadRoundTrip ==
  /\ \A name \in load_favorites(favFile, TRUE) : Trimmed(name)
  /\ (call.op = "load_favorites" => \A name \in call.ret : Trimmed(name))
  /\ (call.op = "toggle_favorite" /\ call.readOk /\ call.writeOk) =>
       LET loaded == load_favorites(call.before, TRUE)
           S == IF call.name \in loaded THEN loaded \ {call.name}
                ELSE loaded \cup {call.name}
       IN  /\ favFile = favorites_text(S)
           /\ load_favorites(favFile, TRUE) = S

\* an attach, create or kill command that exited with a non-zero status
FailedCommand(c) ==
  /\ c.rc # 0
  /\ c.cmd \in {"switch-client", "has-session", "new-session", "kill-session"}

\* a step of a handler whose last command failed
FailedStep ==
  /\ appState = "running"
  /\ trace' # <<>>
  /\ FailedCommand(trace'[Len(trace')])
  /\ << status, trace >>' # << status, trace >>

FailureMessages ==
  {"Failed to switch", "does not exist", "Failed to create session",
   "Failed to kill session"}

\* C18: when the attach/switch, create or kill command of a handler exits
\* non-zero, the handler shows the failure message and nothing else changes:
\* the application keeps running, sessions and filtered_sessions are the
\* same, no refresh is scheduled, the server, the favorites file and the
\* hand-off file are untouched.
C18_FailedCommandIsNoOp ==
  [][ FailedStep =>
        /\ status' \in FailureMessages
        /\ appState' = "running"
        /\ UNCHANGED << sessions, filtered_sessions, search_query,
                        show_favorites_only, current_session, refreshPending,
                        polling >>
        /\ UNCHANGED envVars ]_vars

C18_Witness ==
  /\ status = "Failed to kill session"
  /\ trace = <<Cmd("kill-session", work, 1)>>
  /\ appState = "running"
  /\ FilteredNames = <<work>>
  /\ server = <<work>>
  /\ refreshPending = 0

\* C19: after a successful create, kill or favorite toggle a refresh of the
\* session list is scheduled.
C19_EveryMutationRepolls ==
  (appState = "running"
     /\ status \in {"Created session", "Killed session",
                    "Added to favorites", "Removed from favorites"})
  => refreshPending = 1

\* C20: without a tmux executable, on_mount shows the diagnostic and quits:
\* no list-sessions poll and no display-message query is ever issued.  The
\* running application stops only when the user quits or when the hand-off
\* file has been written: no failure stops it, it only changes the status.
C20_OnlyMissingTmuxIsFatal ==
  /\ [](~tmuxAvail =>
          /\ appState \in {"init", "quit"}
          /\ appState = "quit" => status = "tmux is not installed"
          /\ refreshPending = 0 /\ polling = 0
          /\ sessions = <<>> /\ current_session = None
          /\ \A i \in 1..Len(trace) : trace[i].cmd = "-V")
  /\ [][ (appState = "running" /\ appState' # "running") =>
          \/ (handoff' # None /\ status' = "Preparing to attach")
          \/ UNCHANGED << sessions, filtered_sessions, search_query,
                          show_favorites_only, current_session, status,
                          refreshPending, polling, trace, tmuxAvail, insideTmux,
                          ownSession, server, favFile, favWritable, handoff,
                          created >> ]_vars

\* C21: filtered_sessions is a subsequence of sessions: its elements are
\* elements of sessions, in the order sessions has them and none twice, and
\* it is determined by sessions, search_query and show_favorites_only.
C21_OrderPreserving ==
  /\ \A k \in 1..Len(filtered_sessions) : filtered_sessions[k] \in 1..Len(sessions)
  /\ \A j, k \in 1..Len(filtered_sessions) :
       j < k => filtered_sessions[j] < filtered_sessions[k]
  /\ filtered_sessions =
       update_filtered_sessions(sessions, show_favorites_only, search_query)

\* the query "wo" keeps both work and WORK, in the order of the listing
C21_Witness ==
  /\ search_query = <<"w", "o">>
  /\ Len(sessions) = 2
  /\ filtered_sessions = <<1, 2>>
  /\ sessions[1].name = shout
  /\ sessions[2].name = work

\* C22: when action_toggle_favorite has run on a selected session, that
\* record's is_favorite is the membership of its name in the favorites file
\* as it now is, whether or not the read and the write succeeded, and every
\* other record is as before.
C22_FlagMatchesStore ==
  [][ \A k \in Selections, readOk \in BOOLEAN :
        (action_toggle_favorite(k, readOk) /\ get_selected_session(k) # 0) =>
          LET ref == get_selected_session(k) IN
          /\ sessions'[ref].is_favorite =
               (sessions[ref].name \in load_favorites(favFile', TRUE))
          /\ \A j \in 1..Len(sessions) : j # ref => sessions'[j] = sessions[j]
    ]_vars

\* the names of sessions, in order
SessionNames == [i \in 1..Len(sessions) |-> sessions[i].name]

\* C23: whatever refresh requests arrive, a poll that completes replaces
\* sessions by the listing of the server as it then is and derives
\* filtered_sessions from that list in the same step; no second poll is
\* scheduled behind it by the requests that were superseded; and once no
\* refresh is scheduled or polling, sessions lists the server's sessions.
C23_LatestPollWins ==
  /\ [](refreshPending <= 1 /\ polling <= 1)
  /\ []((appState = "running" /\ refreshPending = 0 /\ polling = 0)
          => SessionNames = server)
  /\ [](LoopFree =>
          \A k \in 1..Len(filtered_sessions) :
            filtered_sessions[k] \in 1..Len(sessions))
  /\ [][ (polling = 1 /\ polling' = 0 /\ appState' = "running") =>
          /\ SessionNames' = server
          /\ filtered_sessions' =
               update_filtered_sessions(sessions', show_favorites_only,
                                        search_query) ]_vars

\* the refresh of on_mount was superseded by the one action_new_session
\* asked for (the session was named from an empty list), and that one has
\* delivered both sessions
C23_Witness ==
  /\ appState = "running"
  /\ refreshPending = 0
  /\ polling = 0
  /\ status = "Found sessions"
  /\ server = <<work, SessionName(1)>>
  /\ SessionNames = server
  /\ filtered_sessions = <<1, 2>>

\* filtered_sessions after action_toggle_favorites_filter has run twice from
\* this state: the first run leaves show_favorites_only negated, the second
\* negates it again and recomputes the list
FilteredAfterTwoToggles ==
  update_filtered_sessions(sessions, ~(~show_favorites_only), search_query)

\* C24: on_input_changed and action_toggle_favorites_filter change nothing
\* but search_query or show_favorites_only, filtered_sessions and the status
\* (no record, not current_session, not the favorites file, no command), and
\* toggling the favorites filter twice gives the filtered_sessions there was
\* before.
C24_FilterControlsFrame ==
  /\ [][ ((\E value \in TypedQueries : on_input_changed(value))
            \/ action_toggle_favorites_filter)
          => /\ UNCHANGED << sessions, current_session, appState, refreshPending,
                             polling >>
             /\ UNCHANGED envVars
             /\ trace' = trace \/ trace' = <<>> ]_vars
  /\ [](Handling => FilteredAfterTwoToggles = filtered_sessions)

\* a step of action_new_session
NewSessionStep ==
  /\ appState = "running"
  /\ status' \in {"Created session", "Failed to create session", "already exists"}
  /\ << status, trace >>' # << status, trace >>

\* C25: action_new_session asks for the one name session-(N+1), N the
\* number of sessions of the last poll, with at most one new-session
\* command; the name is not taken, so that the session is created unless the
\* command itself fails; and in no settled state is the next name taken,
\* which would make every repetition fail the same way.
C25_NewSessionFindsFreeName ==
  /\ [][ NewSessionStep =>
          LET session_name == SessionName(Len(sessions) + 1) IN
          /\ \A i \in 1..Len(trace') : trace'[i].target = session_name
          /\ Cardinality({i \in 1..Len(trace') : trace'[i].cmd = "new-session"}) <= 1
          /\ status' # "already exists"
          /\ status' = "Created session" =>
               (~Exists(server, session_name) /\ server' = Append(server, session_name))
        ]_vars
  /\ []((appState = "running" /\ refreshPending = 0 /\ polling = 0)
          => ~Exists(server, SessionName(Len(sessions) + 1)))

====
